---- MODULE Spec2Model ----
(***************************************************************************)
(* Model of the sales aggregation CLI (src/src/app/sales_cli.py).          *)
(*                                                                         *)
(* A CSV file is a sequence of physical lines, each line the sequence of   *)
(* its cells as csv.reader splits it; a blank line is the empty sequence   *)
(* and a zero-byte file is the empty sequence of lines.  Amounts are       *)
(* floats whose finite values are counted in hundredths (2.5 is 250), plus *)
(* the not-a-number value that float() also returns.                       *)
(***************************************************************************)
EXTENDS Integers, Sequences, FiniteSets, TLC

\* ---------------------------------------------------------------- bounds
MaxLines == 2      \* physical lines after the header line
MaxTop   == 2      \* largest value given to --top

\* ------------------------------------------------------- text of the cells
\* str.strip() on the texts that occur in the files of the model.
Strip(s) ==
  CASE s = " B"    -> "B"
    [] s = " date" -> "date"
    [] OTHER       -> s

\* Lexicographic rank of the (stripped) sku strings, for Python's str < str.
Rank(s) ==
  CASE s = ""  -> 0
    [] s = "A" -> 1
    [] s = "B" -> 2
    [] s = "C" -> 3
    [] OTHER   -> 4

StrLt(a, b) == Rank(a) < Rank(b)

DateTexts   == {"2024-06-01", "2024-06-02", "06/01"}
SkuTexts    == {"A", " B", "C", ""}
AmountTexts == {"2.5", "-5", "ten", "nan"}

\* date.fromisoformat: the texts it accepts, and the date it returns as
\* <<year, month, day>>.
IsIsoDate(s) == s \in {"2024-06-01", "2024-06-02"}

FromIso(s) ==
  CASE s = "2024-06-01" -> <<2024, 6, 1>>
    [] s = "2024-06-02" -> <<2024, 6, 2>>

DateLt(a, b) ==
  \/ a[1] < b[1]
  \/ a[1] = b[1] /\ a[2] < b[2]
  \/ a[1] = b[1] /\ a[2] = b[2] /\ a[3] < b[3]

TwoDigits(n) == IF n < 10 THEN "0" \o ToString(n) ELSE ToString(n)

\* date.isoformat()
IsoFormat(d) == ToString(d[1]) \o "-" \o TwoDigits(d[2]) \o "-" \o TwoDigits(d[3])

\* ------------------------------------------------------------------ floats
NaN == [fin |-> FALSE, c |-> 0]
Fin(c) == [fin |-> TRUE, c |-> c]

\* float(s): the texts it accepts (it accepts nan), and the value.
FloatOk(s) == s \in {"2.5", "-5", "nan"}

Float(s) ==
  CASE s = "2.5" -> Fin(250)
    [] s = "-5"  -> Fin(0 - 500)
    [] s = "nan" -> NaN

FAdd(a, b) == IF a.fin /\ b.fin THEN Fin(a.c + b.c) ELSE NaN
FNeg(a)    == IF a.fin THEN Fin(0 - a.c) ELSE NaN
FEq(a, b)  == a.fin /\ b.fin /\ a.c = b.c
FLt(a, b)  == a.fin /\ b.fin /\ a.c < b.c

Abs(n) == IF n < 0 THEN 0 - n ELSE n

\* f"{a:.2f}"
Fmt2(a) ==
  IF ~a.fin THEN "nan"
  ELSE (IF a.c < 0 THEN "-" ELSE "")
         \o ToString(Abs(a.c) \div 100) \o "." \o TwoDigits(Abs(a.c) % 100)

\* ------------------------------------------------------------ sorted(...)
\* list.sort on a short list: the indices 1..n in sorted order, lt[a][b]
\* being key(a) < key(b).  An initial run is found (reversed when strictly
\* descending) and the remaining elements are placed by binary insertion.
RECURSIVE RunLen(_, _, _, _)
RunLen(n, lt, desc, run) ==
  IF run < n /\ (lt[run + 1][run] = desc)
  THEN RunLen(n, lt, desc, run + 1)
  ELSE run

RECURSIVE Reverse(_)
Reverse(s) == IF s = <<>> THEN <<>> ELSE Append(Reverse(Tail(s)), Head(s))

RECURSIVE BinSearch(_, _, _, _, _)
BinSearch(a, lt, pivot, l, r) ==
  IF l < r
  THEN LET p == l + ((r - l) \div 2)
       IN  IF lt[pivot][a[p]]
           THEN BinSearch(a, lt, pivot, l, p)
           ELSE BinSearch(a, lt, pivot, p + 1, r)
  ELSE l

RECURSIVE BinarySort(_, _, _, _)
BinarySort(a, lt, n, start) ==
  IF start > n THEN a
  ELSE LET l == BinSearch(a, lt, start, 1, start)
           b == SubSeq(a, 1, l - 1) \o <<start>> \o SubSeq(a, l, start - 1)
       IN  BinarySort(b, lt, n, start + 1)

SortPerm(n, lt) ==
  IF n < 2 THEN [k \in 1..n |-> k]
  ELSE LET desc == lt[2][1]
           run  == RunLen(n, lt, desc, 2)
           ids  == [k \in 1..run |-> k]
           a    == IF desc THEN Reverse(ids) ELSE ids
       IN  BinarySort(a, lt, n, run + 1)

\* --------------------------------------------------------------- aggregation
RECURSIVE Totals(_, _)
\* the dict built by the loop of aggregate_by_sku / aggregate_by_date, as the
\* sequence of its (key, total) items in insertion order; keyOf is "sku" or "dt".
Totals(rs, keyOf) ==
  IF rs = <<>> THEN <<>>
  ELSE LET n    == Len(rs)
           prev == Totals(SubSeq(rs, 1, n - 1), keyOf)
           r    == rs[n]
           hit  == {k \in 1..Len(prev) : prev[k][1] = r[keyOf]}
       IN  IF hit = {}
           THEN Append(prev, <<r[keyOf], FAdd(Fin(0), r.amount)>>)
           ELSE LET k == CHOOSE k \in hit : TRUE
                IN  [prev EXCEPT ![k] = <<prev[k][1], FAdd(prev[k][2], r.amount)>>]

\* the key without its sku component
SkuKeyLtNoTie(x, y) == FLt(FNeg(x[2]), FNeg(y[2]))

\* key=lambda kv: (-kv[1], kv[0]), compared as Python compares tuples
SkuKeyLt(x, y) ==
  IF FEq(FNeg(x[2]), FNeg(y[2]))
  THEN StrLt(x[1], y[1])
  ELSE FLt(FNeg(x[2]), FNeg(y[2]))

aggregate_by_sku(rs) ==
  LET items == Totals(rs, "sku")
      n     == Len(items)
      lt    == [a \in 1..n |-> [b \in 1..n |-> SkuKeyLt(items[a], items[b])]]
      perm  == SortPerm(n, lt)
  IN  [k \in 1..n |-> items[perm[k]]]

aggregate_by_date(rs) ==
  LET items == Totals(rs, "dt")
      n     == Len(items)
      lt    == [a \in 1..n |-> [b \in 1..n |-> DateLt(items[a][1], items[b][1])]]
      perm  == SortPerm(n, lt)
  IN  [k \in 1..n |-> items[perm[k]]]

\* ------------------------------------------------------------------ state
VARIABLES
  exists,    \* the path given to main names an existing file
  content,   \* the physical lines of that file
  pc,        \* position of main: start, loop, raised, parsed, done
  i,         \* parse_rows: the counter of enumerate(reader, start=2)
  line_num,  \* parse_rows: physical line the csv reader has consumed up to
  rows,      \* parse_rows: the local list being built
  err,       \* the InputError raised by parse_rows
  ret,       \* main: the list bound to rows by the call of parse_rows
  returned,  \* main: parse_rows has returned normally
  top,       \* ns.top: <<>> when --top is not given, else <<N>>
  by_date,   \* ns.by_date
  out,       \* an --out path was given
  outfile,   \* rows of the export file; <<>> while the file is not written
  stdout,    \* lines printed to standard output
  stderr,    \* lines printed to standard error
  status     \* value returned by main; -1 while it runs

vars == <<exists, content, pc, i, line_num, rows, err, ret, returned,
          top, by_date, out, outfile, stdout, stderr, status>>

REQUIRED_COLUMNS == {"date", "sku", "amount"}

NoErr == [kind |-> "none", line |-> 0, raw |-> ""]
Err(kind, line, raw) == [kind |-> kind, line |-> line, raw |-> raw]

\* The message of an InputError (the path is left out of "file not found").
Message(e) ==
  CASE e.kind = "file not found"   -> "file not found"
    [] e.kind = "missing header"   ->
         "missing header row with required columns: date, sku, amount"
    [] e.kind = "missing required columns" ->
         "missing required columns: " \o e.raw
    [] e.kind = "sku"    -> "line " \o ToString(e.line) \o ": sku must be non-empty"
    [] e.kind = "date"   -> "line " \o ToString(e.line) \o ": invalid date '"
                              \o e.raw \o "' (YYYY-MM-DD)"
    [] e.kind = "amount" -> "line " \o ToString(e.line) \o ": invalid amount '"
                              \o e.raw \o "'"
    [] OTHER -> ""

\* ------------------------------------------------------------ the csv reader
\* DictReader.fieldnames: the first row the reader yields (the empty list for
\* a blank first line), None when the reader yields no row at all.
FieldNames(c) ==
  IF Len(c) = 0 THEN [none |-> TRUE, names |-> <<>>]
  ELSE [none |-> FALSE, names |-> c[1]]

\* header = {h.strip() for h in reader.fieldnames}
HeaderSet(fn) == {Strip(fn[k]) : k \in 1..Len(fn)}

Missing(fn) == REQUIRED_COLUMNS \ HeaderSet(fn)

\* ", ".join(sorted(missing))
JoinSorted(m) ==
  LET a == IF "amount" \in m THEN <<"amount">> ELSE <<>>
      d == IF "date" \in m THEN <<"date">> ELSE <<>>
      s == IF "sku" \in m THEN <<"sku">> ELSE <<>>
      l == a \o d \o s
  IN  CASE Len(l) = 0 -> ""
        [] Len(l) = 1 -> l[1]
        [] Len(l) = 2 -> l[1] \o ", " \o l[2]
        [] OTHER      -> l[1] \o ", " \o l[2] \o ", " \o l[3]

\* DictReader.__next__ skips the rows that are empty lists: the physical line
\* of the next row it yields after line ln, 0 when the file is exhausted.
NextRowPos(c, ln) ==
  LET cand == {p \in (ln + 1)..Len(c) : c[p] # <<>>}
  IN  IF cand = {} THEN 0 ELSE CHOOSE p \in cand : \A q \in cand : p <= q

\* (raw.get(name) or "").strip() for raw = dict(zip(fieldnames, row)), the
\* fields past the end of a short row being None.
Field(fn, row, name) ==
  LET idx == {k \in 1..Len(fn) : fn[k] = name /\ k <= Len(row)}
  IN  IF idx = {} THEN ""
      ELSE Strip(row[CHOOSE k \in idx : \A q \in idx : q <= k])

\* the checks without the one of the sku
RowErrorNoSku(n, fn, row) ==
  LET dt_str  == Field(fn, row, "date")
      amt_str == Field(fn, row, "amount")
  IN  IF ~IsIsoDate(dt_str) THEN Err("date", n, dt_str)
      ELSE IF ~FloatOk(amt_str) THEN Err("amount", n, amt_str)
      ELSE NoErr

\* The checks of the loop body, in their order: the InputError the row
\* raises, NoErr when it raises none.
RowError(n, fn, row) ==
  LET dt_str  == Field(fn, row, "date")
      sku     == Field(fn, row, "sku")
      amt_str == Field(fn, row, "amount")
  IN  IF sku = "" THEN Err("sku", n, "")
      ELSE IF ~IsIsoDate(dt_str) THEN Err("date", n, dt_str)
      ELSE IF ~FloatOk(amt_str) THEN Err("amount", n, amt_str)
      ELSE NoErr

\* Row(dt=dt, sku=sku, amount=amt)
MkRow(fn, row) ==
  [dt     |-> FromIso(Field(fn, row, "date")),
   sku    |-> Field(fn, row, "sku"),
   amount |-> Float(Field(fn, row, "amount"))]

\* ------------------------------------------------------------- the formatter
RECURSIVE SumAmounts(_)
\* sum(r.amount for r in rows), from the integer 0
SumAmounts(rs) ==
  IF rs = <<>> THEN Fin(0)
  ELSE FAdd(SumAmounts(SubSeq(rs, 1, Len(rs) - 1)), rs[Len(rs)].amount)

\* s[:n] for n >= 0
Slice(s, n) == SubSeq(s, 1, IF n < Len(s) THEN n ELSE Len(s))

\* top_n = ns.top if ns.top is not None and ns.top >= 0 else None
TopN(t) == IF t # <<>> /\ t[1] >= 0 THEN t ELSE <<>>

\* the slice taken only for a positive top
TruncatePositive(by_sku, t) ==
  IF t # <<>> /\ t[1] > 0 THEN Slice(by_sku, t[1]) ELSE by_sku

\* by_sku[:top] when top is not None and top >= 0, else by_sku
Truncate(by_sku, t) ==
  IF t # <<>> /\ t[1] >= 0 THEN Slice(by_sku, t[1]) ELSE by_sku

\* the f"{sku},{amt:.2f}" lines of the BY_SKU section
SkuLines(by_sku) ==
  [k \in 1..Len(by_sku) |-> by_sku[k][1] \o "," \o Fmt2(by_sku[k][2])]

DateLines(by_dt) ==
  [k \in 1..Len(by_dt) |-> IsoFormat(by_dt[k][1]) \o "," \o Fmt2(by_dt[k][2])]

MinDate(rs) ==
  LET k == CHOOSE k \in 1..Len(rs) : \A q \in 1..Len(rs) : ~DateLt(rs[q].dt, rs[k].dt)
  IN  rs[k].dt

MaxDate(rs) ==
  LET k == CHOOSE k \in 1..Len(rs) : \A q \in 1..Len(rs) : ~DateLt(rs[k].dt, rs[q].dt)
  IN  rs[k].dt

\* the range taken from the first and the last record
DateRangeFirstLast(rs) ==
  IF rs # <<>>
  THEN IsoFormat(rs[1].dt) \o ".." \o IsoFormat(rs[Len(rs)].dt)
  ELSE "unknown"

DateRange(rs) ==
  IF rs # <<>>
  THEN IsoFormat(MinDate(rs)) \o ".." \o IsoFormat(MaxDate(rs))
  ELSE "unknown"

RECURSIVE FSum(_)
FSum(ps) == IF ps = <<>> THEN Fin(0) ELSE FAdd(FSum(SubSeq(ps, 1, Len(ps) - 1)), ps[Len(ps)][2])

\* the output whose total is taken over the truncated list
FormatOutputShownTotal(rs, t, bd) ==
  <<"TOTAL," \o Fmt2(FSum(Truncate(aggregate_by_sku(rs), t))), "BY_SKU">>
    \o SkuLines(Truncate(aggregate_by_sku(rs), t))
    \o (IF bd THEN <<"BY_DATE">> \o DateLines(aggregate_by_date(rs)) ELSE <<>>)
    \o <<"DATE_RANGE," \o DateRange(rs)>>

\* _format_output(rows, top=t, by_date=bd), as the list of its lines
FormatOutput(rs, t, bd) ==
  <<"TOTAL," \o Fmt2(SumAmounts(rs)), "BY_SKU">>
    \o SkuLines(Truncate(aggregate_by_sku(rs), t))
    \o (IF bd THEN <<"BY_DATE">> \o DateLines(aggregate_by_date(rs)) ELSE <<>>)
    \o <<"DATE_RANGE," \o DateRange(rs)>>

\* the rows main writes to the export file: the header, then a row per pair
ExportRows(by_sku) ==
  << <<"sku", "amount">> >>
    \o [k \in 1..Len(by_sku) |-> <<by_sku[k][1], Fmt2(by_sku[k][2])>>]

\* the export list left at its full length
MainBySkuUncut(rs, t) == aggregate_by_sku(rs)

\* the by_sku list main prepares for the export (lines 180-183)
MainBySku(rs, t) == Truncate(aggregate_by_sku(rs), TopN(t))

\* ------------------------------------------------------------- input files
\* the cell texts of a column; fewer of them under the headers other than
\* the plain one
Pool(name, few) ==
  CASE name = "date"   -> IF few THEN {"2024-06-01", "06/01"} ELSE DateTexts
    [] name = "sku"    -> IF few THEN {"A", " B"} ELSE SkuTexts
    [] name = "amount" -> IF few THEN {"2.5", "ten"} ELSE AmountTexts
    [] OTHER           -> {"x"}

FirstText(name) ==
  CASE name = "date"   -> "2024-06-01"
    [] name = "sku"    -> "A"
    [] name = "amount" -> "2.5"
    [] OTHER           -> "x"

RECURSIVE FullRows(_, _)
\* the full data lines under header line h: each cell from the pool of its column
FullRows(h, few) ==
  IF h = <<>> THEN {<<>>}
  ELSE {<<c>> \o r : c \in Pool(Strip(Head(h)), few), r \in FullRows(Tail(h), few)}

\* a data line that lacks its last cell
ShortRow(h) == [k \in 1..(Len(h) - 1) |-> FirstText(Strip(h[k]))]

PlainHeader == <<"date", "sku", "amount">>

HeaderLines ==
  { PlainHeader,
    <<"sku", "note", "amount", "date">>,
    <<" date", "sku", "amount">>,
    <<"date", "sku">>,
    <<>> }

\* the lines that may follow header line h: blank lines, full and short rows
DataLines(h) ==
  IF h = <<>> THEN {<<>>, <<"2024-06-01", "A", "2.5">>}
  ELSE {<<>>} \cup FullRows(h, h # PlainHeader) \cup {ShortRow(h)}

\* the files: the zero-byte file, or a header line and up to MaxLines lines
IsFile(c) ==
  \/ c = <<>>
  \/ \E h \in HeaderLines, n \in 0..MaxLines :
       \E ls \in [1..n -> DataLines(h)] : c = <<h>> \o ls

TopValues == {<<>>} \cup {<<n>> : n \in (0 - 1)..MaxTop}

\* ------------------------------------------------------------------- Init
Init ==
  /\ exists \in BOOLEAN
  /\ IF exists THEN IsFile(content) ELSE content = <<>>
  /\ pc = "start"
  /\ i = 0
  /\ line_num = 0
  /\ rows = <<>>
  /\ err = NoErr
  /\ ret = <<>>
  /\ returned = FALSE
  /\ top = <<>>
  /\ by_date = FALSE
  /\ out = FALSE
  /\ outfile = <<>>
  /\ stdout = <<>>
  /\ stderr = <<>>
  /\ status = 0 - 1

\* ---------------------------------------------------------------- actions
\* parse_rows up to the loop (lines 48-67): the file checks, the header.
ParseRowsOpen ==
  /\ pc = "start"
  /\ LET fn == FieldNames(content)
         e  == IF ~exists THEN Err("file not found", 0, "")
               ELSE IF Len(content) = 0 THEN NoErr
               ELSE IF fn.none THEN Err("missing header", 0, "")
               ELSE IF Missing(fn.names) # {}
                    THEN Err("missing required columns", 0, JoinSorted(Missing(fn.names)))
               ELSE NoErr
     IN  /\ err' = e
         /\ IF e # NoErr
            THEN /\ pc' = "raised"
                 /\ UNCHANGED <<i, line_num, returned>>
            ELSE IF Len(content) = 0
                 THEN /\ pc' = "parsed"
                      /\ returned' = TRUE
                      /\ UNCHANGED <<i, line_num>>
                 ELSE /\ pc' = "loop"
                      /\ i' = 2
                      /\ line_num' = 1
                      /\ UNCHANGED returned
  /\ UNCHANGED <<exists, content, rows, ret, top, by_date, out, outfile,
                 stdout, stderr, status>>

\* one pass of the loop that appends a Row (lines 68-87)
ParseRowsRow ==
  /\ pc = "loop"
  /\ LET p == NextRowPos(content, line_num)
     IN  /\ p # 0
         /\ RowError(i, content[1], content[p]) = NoErr
         /\ rows' = Append(rows, MkRow(content[1], content[p]))
         /\ i' = i + 1
         /\ line_num' = p
  /\ UNCHANGED <<exists, content, pc, err, ret, returned, top, by_date, out,
                 outfile, stdout, stderr, status>>

\* one pass of the loop that raises InputError (lines 68-90)
ParseRowsRaise ==
  /\ pc = "loop"
  /\ LET p == NextRowPos(content, line_num)
     IN  /\ p # 0
         /\ RowError(i, content[1], content[p]) # NoErr
         /\ err' = RowError(i, content[1], content[p])
         /\ line_num' = p
  /\ pc' = "raised"
  /\ UNCHANGED <<exists, content, i, rows, ret, returned, top, by_date, out,
                 outfile, stdout, stderr, status>>

\* the reader is exhausted: return rows (line 91), bound by main (line 174)
ParseRowsReturn ==
  /\ pc = "loop"
  /\ NextRowPos(content, line_num) = 0
  /\ line_num' = Len(content)
  /\ ret' = rows
  /\ returned' = TRUE
  /\ pc' = "parsed"
  /\ UNCHANGED <<exists, content, i, rows, err, top, by_date, out, outfile,
                 stdout, stderr, status>>

\* main catches the InputError (lines 175-177)
MainInputError ==
  /\ pc = "raised"
  /\ stderr' = Append(stderr, "error: " \o Message(err))
  /\ status' = 2
  /\ pc' = "done"
  /\ UNCHANGED <<exists, content, i, line_num, rows, err, ret, returned, top,
                 by_date, out, outfile, stdout>>

\* main after a successful parse (lines 179-195), for the options t, bd, o
\* that parse_args read from the command line
MainReport(t, bd, o) ==
  /\ pc = "parsed"
  /\ top' = t
  /\ by_date' = bd
  /\ out' = o
  /\ outfile' = IF o THEN ExportRows(MainBySku(ret, t)) ELSE outfile
  /\ stdout' = stdout \o FormatOutput(ret, TopN(t), bd)
  /\ status' = 0
  /\ pc' = "done"
  /\ UNCHANGED <<exists, content, i, line_num, rows, err, ret, returned, stderr>>

Next ==
  \/ ParseRowsOpen
  \/ ParseRowsRow
  \/ ParseRowsRaise
  \/ ParseRowsReturn
  \/ MainInputError
  \/ \E t \in TopValues, bd \in BOOLEAN, o \in BOOLEAN : MainReport(t, bd, o)

Spec == Init /\ [][Next]_vars

\* ------------------------------------------------- vocabulary of the claims
Succeeded == pc = "done" /\ status = 0

AllFinite(rs) == \A k \in 1..Len(rs) : rs[k].amount.fin

Skus(rs) == {rs[k].sku : k \in 1..Len(rs)}

RECURSIVE IntSum(_, _)
\* the integer sum of the amounts (in hundredths) of the records of rs that
\* satisfy the index set ks
IntSum(rs, ks) ==
  IF ks = {} THEN 0
  ELSE LET k == CHOOSE k \in ks : TRUE
       IN  rs[k].amount.c + IntSum(rs, ks \ {k})

RECURSIVE PairSum(_)
PairSum(ps) == IF ps = <<>> THEN 0 ELSE Head(ps)[2].c + PairSum(Tail(ps))

\* the lines of standard output between the BY_SKU line and the next section
BySkuSection ==
  LET marks == {k \in 3..Len(stdout) : stdout[k] = "BY_DATE"}
      stop  == IF by_date /\ marks # {}
               THEN CHOOSE k \in marks : \A q \in marks : k <= q
               ELSE Len(stdout)
  IN  SubSeq(stdout, 3, stop - 1)

\* the file passed the checks of the header
HeaderAccepted == exists /\ Len(content) > 0 /\ Missing(content[1]) = {}

\* a data line the validation of the loop body does not accept
LineInvalid(line) ==
  \/ Field(content[1], line, "sku") = ""
  \/ ~IsIsoDate(Field(content[1], line, "date"))
  \/ ~FloatOk(Field(content[1], line, "amount"))

InvalidLines ==
  IF exists /\ Len(content) > 0
  THEN {p \in 2..Len(content) : content[p] # <<>> /\ LineInvalid(content[p])}
  ELSE {}

FirstInvalid == CHOOSE p \in InvalidLines : \A q \in InvalidLines : p <= q

\* ------------------------------------------------------------------ claims

\* C1: for every list of records with finite amounts, aggregate_by_sku
\* returns exactly one (sku, total) pair per distinct sku of the input and no
\* others, each total the sum of that sku's amounts, ordered by total
\* descending, equal totals by sku ascending.
C1_AggregateBySku ==
  AllFinite(rows) =>
    LET r == aggregate_by_sku(rows)
    IN  /\ Len(r) = Cardinality(Skus(rows))
        /\ {r[k][1] : k \in 1..Len(r)} = Skus(rows)
        /\ \A k \in 1..Len(r) :
             r[k][2] = Fin(IntSum(rows, {j \in 1..Len(rows) : rows[j].sku = r[k][1]}))
        /\ \A k \in 1..(Len(r) - 1) :
             \/ r[k][2].c > r[k + 1][2].c
             \/ r[k][2].c = r[k + 1][2].c /\ Rank(r[k][1]) < Rank(r[k + 1][1])

\* two skus with equal totals, the one parsed first being the one listed last
C1_Witness ==
  /\ pc = "parsed"
  /\ AllFinite(ret)
  /\ LET r == aggregate_by_sku(ret)
     IN  /\ Len(r) >= 2
         /\ r[1][2] = r[2][2]
         /\ ret[1].sku = r[2][1]

\* C2: with top = N >= 0 the BY_SKU section holds exactly min(N, number of
\* distinct skus) lines, the first ones of the aggregate_by_sku order; with
\* top unset or negative it holds a line for every distinct sku.
C2_TopTruncation ==
  Succeeded =>
    LET full == SkuLines(aggregate_by_sku(ret))
        sec  == BySkuSection
        d    == Cardinality(Skus(ret))
    IN  IF top # <<>> /\ top[1] >= 0
        THEN /\ Len(sec) = (IF top[1] < d THEN top[1] ELSE d)
             /\ sec = SubSeq(full, 1, Len(sec))
        ELSE /\ Len(sec) = d
             /\ sec = full

\* top = 1 cut a list of at least two skus
C2_Witness ==
  /\ Succeeded
  /\ top = <<1>>
  /\ Cardinality(Skus(ret)) >= 2
  /\ Len(BySkuSection) = 1

\* C3: in a successful run with an export path, for any top, the rows of the
\* export file after the sku,amount header are the (sku, two-decimal amount)
\* pairs of the BY_SKU lines printed in that run, same order and number.
C3_ExportMatchesDisplay ==
  (Succeeded /\ out) =>
    LET sec == BySkuSection
    IN  /\ Len(outfile) = Len(sec) + 1
        /\ outfile[1] = <<"sku", "amount">>
        /\ \A k \in 1..Len(sec) :
             /\ Len(outfile[k + 1]) = 2
             /\ outfile[k + 1][1] \o "," \o outfile[k + 1][2] = sec[k]

\* an export that a non-negative top shortened
C3_Witness ==
  /\ Succeeded
  /\ out
  /\ top # <<>>
  /\ top[1] >= 0
  /\ Len(outfile) >= 2
  /\ Len(outfile) - 1 < Cardinality(Skus(ret))

\* C4: when a file has a data line that fails the validation, parse_rows
\* raises an InputError at the first such line in file order and returns
\* nothing to main, whatever valid lines came before; main returns 2 with no
\* export file written and nothing printed to standard output.
C4_FailFast ==
  LET bad == InvalidLines
  IN  bad # {} =>
        /\ ~returned
        /\ ret = <<>>
        /\ outfile = <<>>
        /\ stdout = <<>>
        /\ pc = "done" => status = 2 /\ Len(stderr) = 1
        /\ HeaderAccepted =>
             LET p == CHOOSE p \in bad : \A q \in bad : p <= q
             IN  /\ pc = "loop" => line_num < p
                 /\ pc \in {"raised", "done"} =>
                      /\ line_num = p
                      /\ err.kind \in {"sku", "date", "amount"}
                      /\ err.kind = "sku" <=> Field(content[1], content[p], "sku") = ""
                      /\ err.kind = "date" => err.raw = Field(content[1], content[p], "date")
                      /\ err.kind = "amount" => err.raw = Field(content[1], content[p], "amount")

\* main has returned 2 for a file whose invalid line follows a valid one
C4_Witness ==
  /\ pc = "done"
  /\ status = 2
  /\ HeaderAccepted
  /\ InvalidLines # {}
  /\ FirstInvalid = 3
  /\ Len(rows) = 1

\* C5: the line number carried by the InputError for an invalid sku, date or
\* amount is the 1-based number of the offending line in the file, blank
\* lines before it included.
C5_LineNumber ==
  (pc \in {"raised", "done"} /\ err.kind \in {"sku", "date", "amount"}) =>
    err.line = line_num

\* C6: every record parse_rows builds has a finite amount.
C6_FiniteAmounts == AllFinite(rows)

\* the cell of a data line under the column whose trimmed name is name
TrimmedField(fn, row, name) ==
  LET idx == {k \in 1..Len(fn) : Strip(fn[k]) = name /\ k <= Len(row)}
  IN  IF idx = {} THEN ""
      ELSE Strip(row[CHOOSE k \in idx : \A q \in idx : q <= k])

\* a data line that is valid under the columns the header check accepted
LineValid(fn, row) ==
  /\ TrimmedField(fn, row, "sku") # ""
  /\ IsIsoDate(TrimmedField(fn, row, "date"))
  /\ FloatOk(TrimmedField(fn, row, "amount"))
  /\ Float(TrimmedField(fn, row, "amount")).fin

RECURSIVE ExpectedRows(_, _)
\* the records of the non-blank data lines of c from line p on, in file order
ExpectedRows(c, p) ==
  IF p > Len(c) THEN <<>>
  ELSE IF c[p] = <<>> THEN ExpectedRows(c, p + 1)
  ELSE <<[dt     |-> FromIso(TrimmedField(c[1], c[p], "date")),
          sku    |-> TrimmedField(c[1], c[p], "sku"),
          amount |-> Float(TrimmedField(c[1], c[p], "amount"))]>>
         \o ExpectedRows(c, p + 1)

\* C7: when the trimmed header names contain date, sku and amount and every
\* data line is valid, parse_rows succeeds and returns one record per data
\* line, in file order, with the values of those three columns.
C7_TrimmedHeader ==
  ( /\ pc \in {"raised", "parsed", "done"}
    /\ exists
    /\ Len(content) > 0
    /\ REQUIRED_COLUMNS \subseteq HeaderSet(content[1])
    /\ \A p \in 2..Len(content) :
         content[p] # <<>> => LineValid(content[1], content[p]) )
  => /\ returned
     /\ ret = ExpectedRows(content, 2)

\* C8: an existing file of non-zero length with no header row (its first
\* line is blank) makes parse_rows fail with the missing-header diagnostic.
C8_MissingHeader ==
  (exists /\ Len(content) > 0 /\ content[1] = <<>> /\ pc # "start") =>
    err.kind = "missing header"

\* C9: for records with finite amounts the totals of aggregate_by_sku and the
\* totals of aggregate_by_date both add up to the sum of all amounts, which is
\* the TOTAL that is printed, whatever top is.
C9_TotalsAgree ==
  AllFinite(rows) =>
    LET all == IntSum(rows, 1..Len(rows))
    IN  /\ PairSum(aggregate_by_sku(rows)) = all
        /\ PairSum(aggregate_by_date(rows)) = all
        /\ Succeeded => stdout[1] = "TOTAL," \o Fmt2(Fin(IntSum(ret, 1..Len(ret))))

\* a printed total over several skus, more of them than top lets through
C9_Witness ==
  /\ Succeeded
  /\ AllFinite(ret)
  /\ top = <<1>>
  /\ Cardinality(Skus(ret)) >= 2
  /\ Cardinality({ret[k].dt : k \in 1..Len(ret)}) >= 2

\* C10: for a zero-byte file and for a file of only a valid header row main
\* returns 0 and prints TOTAL,0.00, an empty BY_SKU section and
\* DATE_RANGE,unknown; DATE_RANGE is unknown exactly when no record was
\* parsed, and is <min date>..<max date> over all records otherwise.
C10_EmptyAndDateRange ==
  /\ ( /\ pc = "done"
       /\ exists
       /\ Len(content) = 0 \/ (Len(content) = 1 /\ Missing(content[1]) = {}) )
     => /\ status = 0
        /\ stdout[1] = "TOTAL,0.00"
        /\ stdout[2] = "BY_SKU"
        /\ BySkuSection = <<>>
        /\ stdout[Len(stdout)] = "DATE_RANGE,unknown"
  /\ Succeeded =>
       /\ stdout[Len(stdout)] = "DATE_RANGE,unknown" <=> ret = <<>>
       /\ ret # <<>> =>
            \E a, b \in 1..Len(ret) :
              /\ \A q \in 1..Len(ret) :
                   ~DateLt(ret[q].dt, ret[a].dt) /\ ~DateLt(ret[b].dt, ret[q].dt)
              /\ stdout[Len(stdout)] =
                   "DATE_RANGE," \o IsoFormat(ret[a].dt) \o ".." \o IsoFormat(ret[b].dt)

\* the report of a file that holds only its header line
C10_Witness ==
  /\ Succeeded
  /\ Len(content) = 1
  /\ stdout[Len(stdout)] = "DATE_RANGE,unknown"

====
